---- MODULE Spec2Model ----
(***************************************************************************)
(* Model of the two-player card game server (src/app.py): the join and     *)
(* play handlers over the database tables Game, GamePlayer, Player, Move.  *)
(*                                                                         *)
(* One game (id 1) and NumPlayers registered players are in the database   *)
(* at the start.  Spec runs every request to completion before the next    *)
(* (requests serialized); SpecConc runs the handlers of NumProcs workers   *)
(* step by step, one step per database commit.                             *)
(***************************************************************************)
EXTENDS Integers, Sequences, FiniteSets, TLC

VARIABLES game, seats, score, moves, last, procs, pub

vars == <<game, seats, score, moves, last, procs, pub>>

(***************************************************************************)
(* Bounds of the model.                                                    *)
(***************************************************************************)
\* number of registered players (rows of table Player)
NumPlayers == 3
\* number of outcomes of random.shuffle a join may draw
MaxShuffle == 2
\* number of concurrent workers in SpecConc
NumProcs == 2
\* number of requests each worker serves in SpecConc
MaxServed == 2

(***************************************************************************)
(* Cards.  A card code r + s is the pair <<r, s>>.                         *)
(***************************************************************************)
ranks == <<"2", "3", "4", "5", "6", "7", "8", "9", "10", "J", "Q", "K", "A">>
suits == <<"H", "D", "C", "S">>

create_deck ==
  [i \in 1..(Len(suits) * Len(ranks)) |->
     <<ranks[((i - 1) % Len(ranks)) + 1], suits[((i - 1) \div Len(ranks)) + 1]>>]

\* int(rank) for the ranks written in digits
IntOfRank(rank) ==
  CASE rank = "2" -> 2 [] rank = "3" -> 3 [] rank = "4" -> 4
    [] rank = "5" -> 5 [] rank = "6" -> 6 [] rank = "7" -> 7
    [] rank = "8" -> 8 [] rank = "9" -> 9 [] rank = "10" -> 10

\* card_value with the ace counted low
card_value_AceLow(card_code) ==
  LET rank == card_code[1]
  IN  CASE rank = "J" -> 11
        [] rank = "Q" -> 12
        [] rank = "K" -> 13
        [] rank = "A" -> 1
        [] OTHER -> IntOfRank(rank)

card_value(card_code) ==
  LET rank == card_code[1]
  IN  CASE rank = "J" -> 11
        [] rank = "Q" -> 12
        [] rank = "K" -> 13
        [] rank = "A" -> 14
        [] OTHER -> IntOfRank(rank)

\* played_card = None, winner = None
None == <<>>
NoWinner == 0

\* the separator of the hand text "QH,7S,10C"
Comma == <<",">>

RECURSIVE list_to_hand(_)
list_to_hand(cards) ==
  IF cards = <<>> THEN <<>>
  ELSE IF Len(cards) = 1 THEN <<cards[1]>>
  ELSE <<cards[1], Comma>> \o list_to_hand(Tail(cards))

hand_to_list(hand_text) ==
  IF hand_text = <<>> THEN <<>>
  ELSE SelectSeq(hand_text, LAMBDA x : x # Comma)

\* hand_cards.remove(card) that drops the first card of the list whatever
\* card is asked for (pop(0) for remove(card))
RECURSIVE ListRemove_PopFirst(_, _)
ListRemove_PopFirst(cards, card) ==
  IF cards = <<>> THEN <<>> ELSE Tail(cards)

\* hand_cards.remove(card): drops the first occurrence of card
RECURSIVE ListRemove(_, _)
ListRemove(cards, card) ==
  IF cards = <<>> THEN <<>>
  ELSE IF cards[1] = card THEN Tail(cards)
  ELSE <<cards[1]>> \o ListRemove(Tail(cards), card)

Range(s) == {s[i] : i \in DOMAIN s}

\* random.shuffle(deck): outcome k of the MaxShuffle outcomes considered,
\* each a permutation of the deck
Shuffle(deck, k) ==
  [i \in DOMAIN deck |->
     deck[(((9 + 41 * k) + (27 - 2 * k) * (i - 1)) % Len(deck)) + 1]]

Shuffles == 0..(MaxShuffle - 1)

HandSize == 5

\* the deal with the slice one too long (deck[:6])
Hands_SixCards ==
  [k \in Shuffles |-> SubSeq(Shuffle(create_deck, k), 1, HandSize + 1)]

\* hand_cards = deck[:5] of the deck shuffled with outcome k
Hands == [k \in Shuffles |-> SubSeq(Shuffle(create_deck, k), 1, HandSize)]
Deal(k) == Hands[k]

\* the card codes requests name: every card some outcome of the shuffle
\* deals, and the first card of the deck, which none of them deals
ReqCards == UNION {Range(Hands[k]) : k \in Shuffles} \cup {create_deck[1]}

(***************************************************************************)
(* The database.                                                           *)
(***************************************************************************)
Players == 1..NumPlayers
Games == {1}

\* ids a request may carry: player 0 is the default of a request without
\* player_id and is no row of Player; game 2 is no row of Game
ReqPlayers == 0..NumPlayers
ReqGames == {1, 2}

Db == [game |-> game, seats |-> seats, score |-> score, moves |-> moves]

\* the tables after the step
DbNext == [game |-> game', seats |-> seats', score |-> score', moves |-> moves']

InitGame == [status |-> "waiting", current_round |-> 1, winner_id |-> None]

InitScore == [p \in Players |-> 0]

\* the idle worker (SpecConc); Spec keeps every worker idle
Idle ==
  [pc |-> "idle", op |-> "none", player_id |-> 0, card_code |-> None,
   count |-> 0, k |-> 0, played |-> <<>>, winner |-> NoWinner, values |-> <<>>,
   served |-> 0]

Procs == 1..NumProcs

(***************************************************************************)
(* Responses.  body is the "message" or "error" text of the JSON body, or  *)
(* RoundResult for the body {winner, round, values}.                       *)
(***************************************************************************)
GameNotFound == "game not found"
PlayerNotFound == "player not found"
AlreadyJoined == "already joined"
GameFull == "game is full (2 players max)"
Joined == "joined"
SeatNotFound == "player not in this game"
GameNotActive == "game is not active"
AlreadyPlayedThisRound == "you already played this round"
CardNotInHand == "card not in player hand"
Waiting == "card played, waiting opponent..."
RoundResult == "round result"

Errors ==
  {GameNotFound, PlayerNotFound, GameFull, SeatNotFound, GameNotActive,
   AlreadyPlayedThisRound, CardNotInHand}

Response(op, http, body, winner, round, values) ==
  [op |-> op, http |-> http, body |-> body,
   winner |-> winner, round |-> round, values |-> values]

NoResponse == Response("none", 0, "", NoWinner, 0, <<>>)

\* jsonify({"error": ...}) or jsonify({"game_id": game_id, "message": ...})
JoinResponse(http, body) == Response("join", http, body, NoWinner, 0, <<>>)

\* jsonify({"error": ...}) or jsonify({"message": ...})
PlayResponse(http, body) == Response("play", http, body, NoWinner, 0, <<>>)

(***************************************************************************)
(* Queries.                                                                *)
(***************************************************************************)
\* GamePlayer.query.filter_by(game_id, player_id): the row numbers, in order
SeatsOf(db, player_id) ==
  SelectSeq([i \in 1..Len(db.seats) |-> i],
            LAMBDA i : db.seats[i].player_id = player_id)

\* GamePlayer.query.filter_by(game_id).count()
SeatCount(db) == Len(db.seats)

\* [x for x in players if x.played_card]: the row numbers, in order
PlayedSeats(db) ==
  SelectSeq([i \in 1..Len(db.seats) |-> i],
            LAMBDA i : db.seats[i].played_card # None)

(***************************************************************************)
(* POST /games/<game_id>/join                                              *)
(***************************************************************************)
\* the checks of join_game without the check of the existing seat
JoinCheck_NoExistingCheck(db, game_id, player_id) ==
  IF game_id \notin Games THEN GameNotFound
  ELSE IF player_id \notin Players THEN PlayerNotFound
  ELSE IF SeatCount(db) >= 2 THEN GameFull
  ELSE ""

\* the checks of join_game with the seat cap off by one (count > 2)
JoinCheck_OffByOne(db, game_id, player_id) ==
  IF game_id \notin Games THEN GameNotFound
  ELSE IF player_id \notin Players THEN PlayerNotFound
  ELSE IF SeatsOf(db, player_id) # <<>> THEN AlreadyJoined
  ELSE IF SeatCount(db) > 2 THEN GameFull
  ELSE ""

\* the checks of join_game: the body of the early return, or "" to go on
JoinCheck(db, game_id, player_id) ==
  IF game_id \notin Games THEN GameNotFound
  ELSE IF player_id \notin Players THEN PlayerNotFound
  ELSE IF SeatsOf(db, player_id) # <<>> THEN AlreadyJoined
  ELSE IF SeatCount(db) >= 2 THEN GameFull
  ELSE ""

JoinHttp(body) ==
  IF body \in {GameNotFound, PlayerNotFound} THEN 404
  ELSE IF body = GameFull THEN 400
  ELSE 200

\* the join that starts the game one seat late (count == 2 for count == 1)
JoinCommit_StartsLate(db, player_id, count, k) ==
  [db EXCEPT
     !.seats = Append(@, [player_id |-> player_id,
                          hand |-> list_to_hand(Deal(k)),
                          played_card |-> None]),
     !.game.status = IF count = 2 THEN "in_progress" ELSE @]

\* deal, add the GamePlayer row, start the game on the second seat, commit
JoinCommit(db, player_id, count, k) ==
  [db EXCEPT
     !.seats = Append(@, [player_id |-> player_id,
                          hand |-> list_to_hand(Deal(k)),
                          played_card |-> None]),
     !.game.status = IF count = 1 THEN "in_progress" ELSE @]

\* join_game with the seat added before the seat count is checked
join_game_SeatBeforeCheck(db, game_id, player_id, k) ==
  LET body == JoinCheck(db, game_id, player_id)
  IN  IF body = GameFull
        THEN [db |-> JoinCommit(db, player_id, SeatCount(db), k),
              resp |-> JoinResponse(JoinHttp(body), body)]
        ELSE IF body # ""
        THEN [db |-> db, resp |-> JoinResponse(JoinHttp(body), body)]
        ELSE [db |-> JoinCommit(db, player_id, SeatCount(db), k),
              resp |-> JoinResponse(200, Joined)]

join_game(db, game_id, player_id, k) ==
  LET body == JoinCheck(db, game_id, player_id)
  IN  IF body # ""
        THEN [db |-> db, resp |-> JoinResponse(JoinHttp(body), body)]
        ELSE [db |-> JoinCommit(db, player_id, SeatCount(db), k),
              resp |-> JoinResponse(200, Joined)]

(***************************************************************************)
(* POST /games/<game_id>/play                                              *)
(***************************************************************************)
\* the checks of play_card with only in_progress taken as active
PlayCheck_InProgressOnly(db, game_id, player_id, card) ==
  IF game_id \notin Games THEN GameNotFound
  ELSE IF SeatsOf(db, player_id) = <<>> THEN SeatNotFound
  ELSE IF db.game.status # "in_progress" THEN GameNotActive
  ELSE IF db.seats[SeatsOf(db, player_id)[1]].played_card # None
    THEN AlreadyPlayedThisRound
  ELSE IF card \notin Range(hand_to_list(db.seats[SeatsOf(db, player_id)[1]].hand))
    THEN CardNotInHand
  ELSE ""

\* the checks of play_card without the check of the hand
PlayCheck_NoHandCheck(db, game_id, player_id, card) ==
  IF game_id \notin Games THEN GameNotFound
  ELSE IF SeatsOf(db, player_id) = <<>> THEN SeatNotFound
  ELSE IF db.game.status \notin {"in_progress", "waiting"} THEN GameNotActive
  ELSE IF db.seats[SeatsOf(db, player_id)[1]].played_card # None
    THEN AlreadyPlayedThisRound
  ELSE ""

\* the checks of play_card without the check of the pending played card
PlayCheck_NoPlayedCheck(db, game_id, player_id, card) ==
  IF game_id \notin Games THEN GameNotFound
  ELSE IF SeatsOf(db, player_id) = <<>> THEN SeatNotFound
  ELSE IF db.game.status \notin {"in_progress", "waiting"} THEN GameNotActive
  ELSE IF card \notin Range(hand_to_list(db.seats[SeatsOf(db, player_id)[1]].hand))
    THEN CardNotInHand
  ELSE ""

\* the checks of play_card: the body of the early return, or "" to go on
PlayCheck(db, game_id, player_id, card) ==
  IF game_id \notin Games THEN GameNotFound
  ELSE IF SeatsOf(db, player_id) = <<>> THEN SeatNotFound
  ELSE IF db.game.status \notin {"in_progress", "waiting"} THEN GameNotActive
  ELSE IF db.seats[SeatsOf(db, player_id)[1]].played_card # None
    THEN AlreadyPlayedThisRound
  ELSE IF card \notin Range(hand_to_list(db.seats[SeatsOf(db, player_id)[1]].hand))
    THEN CardNotInHand
  ELSE ""

PlayHttp(body) == IF body = GameNotFound THEN 404 ELSE 400

\* remove the card from the hand, mark it played, commit
PlayCommitCard(db, player_id, card) ==
  LET i == SeatsOf(db, player_id)[1]
      hand_cards == ListRemove(hand_to_list(db.seats[i].hand), card)
  IN  [db EXCEPT !.seats[i].hand = list_to_hand(hand_cards),
                 !.seats[i].played_card = card]

\* the move logged with the number of the round to come
PlayLogMove_NextRound(db, player_id, card) ==
  [db EXCEPT !.moves = Append(@, [player_id |-> player_id,
                                  round_number |-> db.game.current_round + 1,
                                  card_code |-> card])]

\* log the move with the game's current round, commit
PlayLogMove(db, player_id, card) ==
  [db EXCEPT !.moves = Append(@, [player_id |-> player_id,
                                  round_number |-> db.game.current_round,
                                  card_code |-> card])]

\* the winner with >= for > in the first comparison: a tie goes to p1
RoundWinner_TieToFirst(db, p1, p2) ==
  LET v1 == card_value(db.seats[p1].played_card)
      v2 == card_value(db.seats[p2].played_card)
  IN  IF v1 >= v2 THEN db.seats[p1].player_id
      ELSE IF v2 > v1 THEN db.seats[p2].player_id
      ELSE NoWinner

\* the winner of the round between the rows p1 and p2
RoundWinner(db, p1, p2) ==
  LET v1 == card_value(db.seats[p1].played_card)
      v2 == card_value(db.seats[p2].played_card)
  IN  IF v1 > v2 THEN db.seats[p1].player_id
      ELSE IF v2 > v1 THEN db.seats[p2].player_id
      ELSE NoWinner

\* the values keyed by the order of submission: v1 under the player of
\* the request, v2 under the opponent
RoundValues_BySubmitter(db, p1, p2) ==
  LET submitter == db.moves[Len(db.moves)].player_id
      players == {db.seats[p1].player_id, db.seats[p2].player_id}
  IN  [p \in players |->
         IF p = submitter
           THEN card_value(db.seats[p1].played_card)
           ELSE card_value(db.seats[p2].played_card)]

\* {str(p1.player_id): v1, str(p2.player_id): v2}
RoundValues(db, p1, p2) ==
  [p \in {db.seats[p1].player_id, db.seats[p2].player_id} |->
     IF p = db.seats[p2].player_id
       THEN card_value(db.seats[p2].played_card)
       ELSE card_value(db.seats[p1].played_card)]

\* wp.score += 1, commit
PlayScore(db, winner) ==
  IF winner # NoWinner /\ winner \in Players
    THEN [db EXCEPT !.score[winner] = @ + 1]
    ELSE db

\* prepare next round, commit
PlayAdvance(db) ==
  [db EXCEPT !.game.current_round = @ + 1, !.game.status = "in_progress"]

\* the reset that clears the played card of p1 only
PlayClear_OnlyFirst(db, p1, p2) ==
  [db EXCEPT !.seats = [i \in DOMAIN @ |->
                          IF i = p1 THEN [@[i] EXCEPT !.played_card = None]
                          ELSE @[i]]]

\* clear played cards for next round, commit
PlayClear(db, p1, p2) ==
  [db EXCEPT !.seats = [i \in DOMAIN @ |->
                          IF i \in {p1, p2} THEN [@[i] EXCEPT !.played_card = None]
                          ELSE @[i]]]

play_card(db, game_id, player_id, card) ==
  LET body == PlayCheck(db, game_id, player_id, card)
  IN  IF body # ""
        THEN [db |-> db,
              resp |-> PlayResponse(PlayHttp(body), body)]
        ELSE
          LET d2 == PlayLogMove(PlayCommitCard(db, player_id, card), player_id, card)
              played == PlayedSeats(d2)
          IN  IF Len(played) < 2
                THEN [db |-> d2,
                      resp |-> PlayResponse(200, Waiting)]
                ELSE
                  LET p1 == played[1]
                      p2 == played[2]
                      winner == RoundWinner(d2, p1, p2)
                      d5 == PlayClear(PlayAdvance(PlayScore(d2, winner)), p1, p2)
                  IN  [db |-> d5,
                       resp |-> Response("play", 200, RoundResult,
                                         winner, d5.game.current_round,
                                         RoundValues(d2, p1, p2))]

(***************************************************************************)
(* Requests processed one at a time, every emit succeeding.                *)
(***************************************************************************)
(* Events published to the room of a game (socketio.emit).  pub holds the  *)
(* events the last request (in SpecConc: the last step) published, in      *)
(* order.  Names of players are not modelled.                              *)
(***************************************************************************)
\* socketio.emit("system", {"message": "Player p joined game g"}, room)
SystemEvent(game_id, player_id) ==
  [event |-> "system", room |-> game_id, player_id |-> player_id]

\* emit_game_state: nothing for an unknown game, else the state snapshot
emit_game_state(db, game_id) ==
  IF game_id \notin Games THEN <<>>
  ELSE <<[event |-> "game_update", type |-> "state", room |-> game_id,
          status |-> db.game.status,
          current_round |-> db.game.current_round,
          winner_id |-> db.game.winner_id,
          players |-> [i \in DOMAIN db.seats |->
                         [player_id |-> db.seats[i].player_id,
                          score |-> db.score[db.seats[i].player_id]]]]>>

\* socketio.emit("game_update", {"type": "card_played", ...}, room)
CardPlayedEvent(game_id, player_id, card, round) ==
  [event |-> "game_update", type |-> "card_played", room |-> game_id,
   player_id |-> player_id, card_code |-> card, round |-> round]

\* socketio.emit("game_update", {"type": "round_result", ...}, room)
RoundResultEvent(game_id, winner, values, round) ==
  [event |-> "game_update", type |-> "round_result", room |-> game_id,
   winner |-> winner, values |-> values, round |-> round]

\* the events of a join_game that ended as r, in order: after the commit
\* only
JoinEvents(r, game_id, player_id) ==
  IF r.resp.body = Joined
    THEN <<SystemEvent(game_id, player_id)>> \o emit_game_state(r.db, game_id)
    ELSE <<>>

\* the events join_game emits
join_game_events(db, game_id, player_id, k) ==
  JoinEvents(join_game(db, game_id, player_id, k), game_id, player_id)

\* card_played emitted after the round is resolved, with the round number
\* g.current_round has by then
PlayEvents_LateCardPlayed(db, r, game_id, player_id, card) ==
  IF r.resp.body \in Errors THEN <<>>
  ELSE <<CardPlayedEvent(game_id, player_id, card, r.db.game.current_round)>>
       \o (IF r.resp.body = RoundResult
             THEN <<RoundResultEvent(game_id, r.resp.winner, r.resp.values,
                                     r.db.game.current_round)>>
                  \o emit_game_state(r.db, game_id)
             ELSE <<>>)

\* the events of a play_card that started from db and ended as r, in
\* order: card_played before the round is resolved, round_result and the
\* snapshot after the last commit
PlayEvents(db, r, game_id, player_id, card) ==
  IF r.resp.body \in Errors THEN <<>>
  ELSE <<CardPlayedEvent(game_id, player_id, card, db.game.current_round)>>
       \o (IF r.resp.body = RoundResult
             THEN <<RoundResultEvent(game_id, r.resp.winner, r.resp.values,
                                     r.db.game.current_round)>>
                  \o emit_game_state(r.db, game_id)
             ELSE <<>>)

\* the events play_card emits
play_card_events(db, game_id, player_id, card) ==
  PlayEvents(db, play_card(db, game_id, player_id, card),
             game_id, player_id, card)

\* the emits of one request that may raise: none (0), or its first, second
\* or third emit
EmitFailures == 0..3

\* an exception leaving the view function: Flask answers 500
InternalError == "internal server error"

\* join_game with its fail-th emit raising (0: none raises).  Both emits
\* follow the commit.
join_game_pub(db, game_id, player_id, k, fail) ==
  LET r == join_game(db, game_id, player_id, k)
      evs == JoinEvents(r, game_id, player_id)
  IN  IF fail \in 1..Len(evs)
        THEN [db |-> r.db,
              resp |-> JoinResponse(500, InternalError),
              pub |-> SubSeq(evs, 1, fail - 1)]
        ELSE [db |-> r.db, resp |-> r.resp, pub |-> evs]

\* play_card with its fail-th emit raising (0: none raises).  The emit of
\* card_played follows the commits of the played card and of the Move and
\* precedes the query of the played rows: when it raises the handler stops
\* there.  The other two emits follow the last commit.
play_card_pub(db, game_id, player_id, card, fail) ==
  LET r == play_card(db, game_id, player_id, card)
      evs == PlayEvents(db, r, game_id, player_id, card)
  IN  IF fail \in 1..Len(evs)
        THEN [db |-> IF fail = 1
                       THEN PlayLogMove(PlayCommitCard(db, player_id, card),
                                        player_id, card)
                       ELSE r.db,
              resp |-> PlayResponse(500, InternalError),
              pub |-> SubSeq(evs, 1, fail - 1)]
        ELSE [db |-> r.db, resp |-> r.resp, pub |-> evs]

(***************************************************************************)
Init ==
  /\ game = InitGame
  /\ seats = <<>>
  /\ score = InitScore
  /\ moves = <<>>
  /\ last = NoResponse
  /\ procs = [pr \in Procs |-> Idle]
  /\ pub = <<>>

Commit(r) ==
  /\ game' = r.db.game
  /\ seats' = r.db.seats
  /\ score' = r.db.score
  /\ moves' = r.db.moves
  /\ last' = r.resp
  /\ pub' = r.pub

\* the card codes a play request of player_id names (after strip().upper()):
\* the first card of the hand of its seat, or the first card of the deck
PickCards(db, player_id) ==
  LET s == SeatsOf(db, player_id)
      hand_cards == IF s = <<>> THEN <<>> ELSE hand_to_list(db.seats[s[1]].hand)
  IN  (IF hand_cards = <<>> THEN {} ELSE {hand_cards[1]}) \cup {create_deck[1]}

\* the outcomes of random.shuffle(deck) in a join: the deck is shuffled
\* only once the checks have passed
JoinShuffles(db, game_id, player_id) ==
  IF JoinCheck(db, game_id, player_id) = "" THEN Shuffles ELSE {0}

Join ==
  \E game_id \in ReqGames, player_id \in ReqPlayers :
    \E k \in JoinShuffles(Db, game_id, player_id) :
      /\ Commit(join_game_pub(Db, game_id, player_id, k, 0))
      /\ UNCHANGED procs

Play ==
  \E game_id \in ReqGames, player_id \in ReqPlayers :
    \E card \in PickCards(Db, player_id) :
      /\ Commit(play_card_pub(Db, game_id, player_id, card, 0))
      /\ UNCHANGED procs

Next == Join \/ Play

Spec == Init /\ [][Next]_vars

(***************************************************************************)
(* Requests processed one at a time, any one emit of a request possibly    *)
(* raising.                                                                *)
(***************************************************************************)
PubJoin ==
  \E game_id \in ReqGames, player_id \in ReqPlayers :
    \E k \in JoinShuffles(Db, game_id, player_id) :
      \E fail \in {f \in EmitFailures :
                     f <= Len(join_game_events(Db, game_id, player_id, k))} :
        /\ Commit(join_game_pub(Db, game_id, player_id, k, fail))
        /\ UNCHANGED procs

PubPlay ==
  \E game_id \in ReqGames, player_id \in ReqPlayers :
    \E card \in PickCards(Db, player_id) :
      \E fail \in {f \in EmitFailures :
                     f <= Len(play_card_events(Db, game_id, player_id, card))} :
        /\ Commit(play_card_pub(Db, game_id, player_id, card, fail))
        /\ UNCHANGED procs

NextPub == PubJoin \/ PubPlay

SpecPub == Init /\ [][NextPub]_vars

(***************************************************************************)
(* Requests of NumProcs workers interleaved: a worker runs its handler one *)
(* step at a time, a step ending at a db.session.commit() or at the        *)
(* return.  What a step reads, it reads from the database as it is then    *)
(* (a commit expires the objects of the session); count, the rows in       *)
(* played, winner and values are locals of the handler and stay as first   *)
(* computed.  Requests name the game and registered players.               *)
(***************************************************************************)
SetDb(db) ==
  /\ game' = db.game
  /\ seats' = db.seats
  /\ score' = db.score
  /\ moves' = db.moves

Return(pr, resp) ==
  /\ last' = resp
  /\ procs' = [procs EXCEPT ![pr] = [Idle EXCEPT !.served = procs[pr].served + 1]]

Ready(pr) == procs[pr].pc = "idle" /\ procs[pr].served < MaxServed

\* join_game up to the count check
CJoinStart(pr) ==
  /\ Ready(pr)
  /\ \E player_id \in Players, k \in Shuffles :
       LET body == JoinCheck(Db, 1, player_id)
       IN  IF body # ""
             THEN /\ Return(pr, JoinResponse(JoinHttp(body), body))
                  /\ pub' = <<>>
                  /\ UNCHANGED <<game, seats, score, moves>>
             ELSE /\ procs' = [procs EXCEPT ![pr].pc = "join_commit",
                                            ![pr].op = "join",
                                            ![pr].player_id = player_id,
                                            ![pr].count = SeatCount(Db),
                                            ![pr].k = k]
                  /\ pub' = <<>>
                  /\ UNCHANGED <<game, seats, score, moves, last>>

\* join_game from the deal to the commit and the return
CJoinCommit(pr) ==
  /\ procs[pr].pc = "join_commit"
  /\ SetDb(JoinCommit(Db, procs[pr].player_id, procs[pr].count, procs[pr].k))
  /\ Return(pr, JoinResponse(200, Joined))
  /\ pub' = <<SystemEvent(1, procs[pr].player_id)>>
               \o emit_game_state(DbNext, 1)

\* play_card up to the commit of the played card
CPlayStart(pr) ==
  /\ Ready(pr)
  /\ \E player_id \in Players :
       \E card \in PickCards(Db, player_id) :
         LET body == PlayCheck(Db, 1, player_id, card)
         IN  IF body # ""
               THEN /\ Return(pr, PlayResponse(PlayHttp(body), body))
                    /\ pub' = <<>>
                    /\ UNCHANGED <<game, seats, score, moves>>
               ELSE /\ SetDb(PlayCommitCard(Db, player_id, card))
                    /\ procs' = [procs EXCEPT ![pr].pc = "log",
                                              ![pr].op = "play",
                                              ![pr].player_id = player_id,
                                              ![pr].card_code = card]
                    /\ pub' = <<>>
                    /\ UNCHANGED last

\* play_card: the Move row and its commit
CPlayLog(pr) ==
  /\ procs[pr].pc = "log"
  /\ SetDb(PlayLogMove(Db, procs[pr].player_id, procs[pr].card_code))
  /\ procs' = [procs EXCEPT ![pr].pc = "resolve"]
  /\ pub' = <<>>
  /\ UNCHANGED last

\* play_card: the emit of card_played, the query of the played rows, the
\* winner, the score commit (a tie commits nothing before the round is
\* advanced)
CPlayResolve(pr) ==
  /\ procs[pr].pc = "resolve"
  /\ pub' = <<CardPlayedEvent(1, procs[pr].player_id, procs[pr].card_code,
                              game.current_round)>>
  /\ LET played == PlayedSeats(Db)
     IN  IF Len(played) < 2
           THEN /\ Return(pr, PlayResponse(200, Waiting))
                /\ UNCHANGED <<game, seats, score, moves>>
           ELSE
             LET winner == RoundWinner(Db, played[1], played[2])
                 loc == [procs[pr] EXCEPT !.played = <<played[1], played[2]>>,
                                          !.winner = winner,
                                          !.values = RoundValues(Db, played[1], played[2])]
             IN  /\ IF winner # NoWinner
                      THEN /\ SetDb(PlayScore(Db, winner))
                           /\ procs' = [procs EXCEPT ![pr] = [loc EXCEPT !.pc = "advance"]]
                      ELSE /\ SetDb(PlayAdvance(Db))
                           /\ procs' = [procs EXCEPT ![pr] = [loc EXCEPT !.pc = "clear"]]
                 /\ UNCHANGED last

\* play_card: the round advance and its commit
CPlayAdvance(pr) ==
  /\ procs[pr].pc = "advance"
  /\ SetDb(PlayAdvance(Db))
  /\ procs' = [procs EXCEPT ![pr].pc = "clear"]
  /\ pub' = <<>>
  /\ UNCHANGED last

\* play_card: the reset of the played cards, its commit, the emits of
\* round_result and of the snapshot, and the return
CPlayClear(pr) ==
  /\ procs[pr].pc = "clear"
  /\ SetDb(PlayClear(Db, procs[pr].played[1], procs[pr].played[2]))
  /\ Return(pr, Response("play", 200, RoundResult,
                         procs[pr].winner, game.current_round,
                         procs[pr].values))
  /\ pub' = <<RoundResultEvent(1, procs[pr].winner, procs[pr].values,
                               game.current_round)>>
               \o emit_game_state(DbNext, 1)

NextConc ==
  \E pr \in Procs :
    \/ CJoinStart(pr)
    \/ CJoinCommit(pr)
    \/ CPlayStart(pr)
    \/ CPlayLog(pr)
    \/ CPlayResolve(pr)
    \/ CPlayAdvance(pr)
    \/ CPlayClear(pr)

SpecConc == Init /\ [][NextConc]_vars

(***************************************************************************)
(* Properties.                                                             *)
(***************************************************************************)
\* the cards in the hand of row i
HandOf(db, i) == hand_to_list(db.seats[i].hand)

\* the cards row i holds: its hand and its pending played card
Held(i) ==
  Range(HandOf(Db, i))
    \cup (IF seats[i].played_card # None THEN {seats[i].played_card} ELSE {})

\* the value of a card as the rules give it: 2-10 literal, J=11, Q=12,
\* K=13, A=14
RankOrder == <<"2", "3", "4", "5", "6", "7", "8", "9", "10", "J", "Q", "K", "A">>
RuleValue(card) == (CHOOSE n \in DOMAIN RankOrder : RankOrder[n] = card[1]) + 1

RECURSIVE SumScore(_, _)
SumScore(sc, n) == IF n = 0 THEN 0 ELSE sc[n] + SumScore(sc, n - 1)
TotalScore == SumScore(score, NumPlayers)

\* C1: no card code is held by more than one seat of the game at the same
\* time: the hands (and pending played cards) of two seats are disjoint.
C1_HandsDisjoint ==
  \A i, j \in DOMAIN seats : i # j => Held(i) \cap Held(j) = {}

\* C2: with requests processed one at a time, the game never has more than
\* 2 seats, and in a game with 2 seats a join by a registered player who
\* holds no seat fails with GameFull and creates no seat.
C2_ThirdJoinGameFull ==
  /\ Len(seats) <= 2
  /\ Len(seats) = 2 =>
       \A player_id \in Players, k \in Shuffles :
         SeatsOf(Db, player_id) = <<>> =>
           LET r == join_game(Db, 1, player_id, k)
           IN  r.resp.body = GameFull /\ r.db.seats = seats

C2_Witness ==
  /\ last.op = "join" /\ last.body = GameFull /\ last.http = 400
  /\ Len(seats) = 2

\* C3: when the plays of the two seats interleave between the commits of
\* the handler, every round is still resolved exactly once: once every
\* request has returned, current_round has advanced by 1 for every two
\* moves logged and not more, and at most one point has been awarded for
\* every two moves logged.
C3_ResolvedOnce ==
  (\A pr \in Procs : procs[pr].pc = "idle") =>
    /\ 2 * (game.current_round - 1) <= Len(moves)
    /\ 2 * TotalScore <= Len(moves)

\* C4: when joins interleave between the seat reads and the commit of the
\* new seat, the game still has at most 2 seats and no player holds two.
C4_SeatCap ==
  /\ Len(seats) <= 2
  /\ \A i, j \in DOMAIN seats : i # j => seats[i].player_id # seats[j].player_id

\* C5: a play that makes both seats' played_card non-None with cards of
\* different value: the winner is the seat of the strictly greater value,
\* exactly its player's score goes up by 1, current_round goes up by 1 and
\* values maps each player to the value of the card that player played.
C5_WinCase ==
  \A i, j \in DOMAIN seats :
    (i # j /\ seats[i].played_card = None /\ seats[j].played_card # None) =>
      \A c \in Range(HandOf(Db, i)) :
        LET p == seats[i].player_id
            q == seats[j].player_id
            vp == RuleValue(c)
            vq == RuleValue(seats[j].played_card)
            w == IF vp > vq THEN p ELSE q
            r == play_card(Db, 1, p, c)
        IN  vp # vq =>
              /\ r.resp.body = RoundResult
              /\ r.resp.winner = w
              /\ r.db.score = [score EXCEPT ![w] = @ + 1]
              /\ r.db.game.current_round = game.current_round + 1
              /\ r.resp.values = [x \in {p, q} |-> IF x = p THEN vp ELSE vq]

C5_Witness ==
  /\ last.body = RoundResult
  /\ last.winner \in Players
  /\ score[last.winner] >= 1
  /\ \E x, y \in DOMAIN last.values : last.values[x] > last.values[y]

\* C6: a play that makes both seats' played_card non-None with cards of
\* equal value: no winner, no score changes, current_round goes up by 1
\* and both seats' played_card are None again.
C6_TieCase ==
  \A i, j \in DOMAIN seats :
    (i # j /\ seats[i].played_card = None /\ seats[j].played_card # None) =>
      \A c \in Range(HandOf(Db, i)) :
        LET r == play_card(Db, 1, seats[i].player_id, c)
        IN  RuleValue(c) = RuleValue(seats[j].played_card) =>
              /\ r.resp.body = RoundResult
              /\ r.resp.winner = NoWinner
              /\ r.db.score = score
              /\ r.db.game.current_round = game.current_round + 1
              /\ \A x \in DOMAIN r.db.seats : r.db.seats[x].played_card = None

C6_Witness ==
  /\ last.body = RoundResult
  /\ last.winner = NoWinner
  /\ Len(moves) >= 2
  /\ moves[Len(moves)].card_code # moves[Len(moves) - 1].card_code
  /\ moves[Len(moves)].round_number = game.current_round - 1
  /\ \A i \in DOMAIN seats : seats[i].played_card = None

\* C7: for a card c1 in the hand of seat P1 and c2 in the hand of seat P2,
\* play(P1,c1);play(P2,c2) and play(P2,c2);play(P1,c1) give the same
\* winner, values, scores, current_round, hands and played_card slots;
\* only the order of the two Move entries differs.
C7_Commutative ==
  (Len(seats) = 2 /\ seats[1].played_card = None /\ seats[2].played_card = None) =>
    \A c1 \in Range(HandOf(Db, 1)), c2 \in Range(HandOf(Db, 2)) :
      LET P1 == seats[1].player_id
          P2 == seats[2].player_id
          a == play_card(play_card(Db, 1, P1, c1).db, 1, P2, c2)
          b == play_card(play_card(Db, 1, P2, c2).db, 1, P1, c1)
          m1 == [player_id |-> P1, round_number |-> game.current_round, card_code |-> c1]
          m2 == [player_id |-> P2, round_number |-> game.current_round, card_code |-> c2]
      IN  /\ a.resp.body = RoundResult /\ b.resp.body = RoundResult
          /\ a.resp.winner = b.resp.winner
          /\ a.resp.values = b.resp.values
          /\ a.resp.round = b.resp.round
          /\ a.db.score = b.db.score
          /\ a.db.game = b.db.game
          /\ a.db.seats = b.db.seats
          /\ a.db.moves = moves \o <<m1, m2>>
          /\ b.db.moves = moves \o <<m2, m1>>

\* a round resolved by the play of the first seat, after the second seat
\* played first, with a winner
C7_Witness ==
  /\ Len(seats) = 2
  /\ last.body = RoundResult
  /\ last.winner # NoWinner
  /\ Len(moves) >= 2
  /\ moves[Len(moves)].player_id = seats[1].player_id
  /\ moves[Len(moves) - 1].player_id = seats[2].player_id

\* C8 as stated: in every reachable state, for every seated player and
\* every card code not in that seat's hand, play fails with CardNotInHand
\* and leaves the hand unchanged.
C8_Original ==
  \A i \in DOMAIN seats :
    \A c \in ReqCards \ Range(HandOf(Db, i)) :
      LET r == play_card(Db, 1, seats[i].player_id, c)
      IN  r.resp.body = CardNotInHand /\ r.db.seats[i].hand = seats[i].hand

\* C8 amended: for every seated player with no pending played_card and
\* every card code not in that seat's hand, play fails with CardNotInHand
\* and leaves the hand unchanged; with a pending played_card the play fails
\* with AlreadyPlayedThisRound, the hand unchanged as well.
C8_CardNotInHand ==
  \A i \in DOMAIN seats :
    \A c \in ReqCards \ Range(HandOf(Db, i)) :
      LET r == play_card(Db, 1, seats[i].player_id, c)
      IN  /\ r.db.seats[i].hand = seats[i].hand
          /\ r.resp.body = IF seats[i].played_card = None
                             THEN CardNotInHand
                             ELSE AlreadyPlayedThisRound

C8_Witness ==
  /\ last.op = "play" /\ last.body = CardNotInHand
  /\ \E i \in DOMAIN seats :
       /\ seats[i].played_card = None
       /\ Len(HandOf(Db, i)) < HandSize

\* C9: while a seat has a pending played_card, every further play by that
\* seat, with any card code, fails with AlreadyPlayedThisRound and does not
\* replace the pending card, change the hand or add a Move entry.
C9_NoDoublePlay ==
  \A i \in DOMAIN seats :
    seats[i].played_card # None =>
      \A c \in ReqCards :
        LET r == play_card(Db, 1, seats[i].player_id, c)
        IN  /\ r.resp.body = AlreadyPlayedThisRound
            /\ r.db.seats[i] = seats[i]
            /\ r.db.moves = moves

C9_Witness ==
  /\ last.op = "play" /\ last.body = AlreadyPlayedThisRound
  /\ \E i \in DOMAIN seats :
       /\ seats[i].played_card # None
       /\ HandOf(Db, i) # <<>>

\* C10: every join or play that returns an error leaves the whole state
\* unchanged: the game's status and current_round, the seats with their
\* hands and played_card, every score and the Move log.
C10_ErrorsChangeNothing ==
  [][last'.body \in Errors => UNCHANGED <<game, seats, score, moves>>]_vars

C10_Witness ==
  /\ last.body \in Errors
  /\ last.http \in {400, 404}
  /\ Len(seats) = 2
  /\ moves # <<>>

\* C11: a join by a player who already holds a seat in the game returns
\* success (200, "already joined") and changes nothing: no second seat,
\* the seat's hand and played_card as they were, status and current_round
\* unchanged; with 1 seat as with 2.
C11_RejoinNoOp ==
  \A i \in DOMAIN seats, k \in Shuffles :
    LET r == join_game(Db, 1, seats[i].player_id, k)
    IN  /\ r.resp.body = AlreadyJoined
        /\ r.resp.http = 200
        /\ r.db.seats = seats
        /\ r.db.game = game
        /\ r.db = Db

\* a rejoin answered while the only seat has a card pending
C11_Witness ==
  /\ last.op = "join" /\ last.body = AlreadyJoined
  /\ Len(seats) = 1
  /\ seats[1].played_card # None
  /\ Len(HandOf(Db, 1)) = HandSize - 1

\* C12: a successful play after which only one seat has a pending
\* played_card returns the "waiting" acknowledgment and leaves
\* current_round, status, every score and the other seat's hand and
\* played_card unchanged; also when the only seated player plays while the
\* game is waiting.
C12_WaitingFrame ==
  \A i \in DOMAIN seats :
    (\A j \in DOMAIN seats : seats[j].played_card = None) =>
      \A c \in Range(HandOf(Db, i)) :
        LET r == play_card(Db, 1, seats[i].player_id, c)
        IN  /\ r.resp.body = Waiting
            /\ r.resp.http = 200
            /\ r.db.seats[i].played_card = c
            /\ r.db.game = game
            /\ r.db.score = score
            /\ \A j \in DOMAIN seats : j # i => r.db.seats[j] = seats[j]

\* the only seated player has played while the game is waiting
C12_Witness ==
  /\ last.op = "play" /\ last.body = Waiting
  /\ Len(seats) = 1
  /\ game.status = "waiting"
  /\ seats[1].played_card # None

\* the rows with a pending played card
Pending == {i \in DOMAIN seats : seats[i].played_card # None}

\* the moves of the log with round number r
MovesOfRound(r) == {n \in DOMAIN moves : moves[n].round_number = r}

\* the moves of the log made by player_id
MovesOfPlayer(player_id) == {n \in DOMAIN moves : moves[n].player_id = player_id}

\* C14: a reader of the tables running between two steps of a play never
\* sees a partial state: a card gone from a hand with no Move entry, both
\* seats with a pending played_card, a score incremented while
\* current_round is not advanced, or current_round advanced while the
\* played_card slots are not cleared.
C14_NoPartialState ==
  /\ \A i \in DOMAIN seats :
       Len(HandOf(Db, i)) + Cardinality(MovesOfPlayer(seats[i].player_id)) = HandSize
  /\ Cardinality(Pending) <= 1
  /\ TotalScore <= game.current_round - 1
  /\ 2 * (game.current_round - 1) + Cardinality(Pending) = Len(moves)

\* C15: with requests serialized, status is waiting exactly when the game
\* has 0 or 1 seats and in_progress exactly when it has 2; it becomes
\* in_progress in the join that fills the second seat, never goes back to
\* waiting, never becomes finished, and the winner stays unset.
C15_Lifecycle ==
  /\ [](/\ game.status \in {"waiting", "in_progress"}
        /\ game.status = "waiting" <=> Len(seats) <= 1
        /\ game.status = "in_progress" <=> Len(seats) = 2
        /\ game.winner_id = None)
  /\ [][game.status = "in_progress" => game'.status = "in_progress"]_vars
  /\ [][(game.status = "waiting" /\ game'.status = "in_progress") =>
          (last'.op = "join" /\ last'.body = Joined
             /\ Len(seats) = 1 /\ Len(seats') = 2)]_vars

C15_Witness ==
  /\ game.status = "in_progress"
  /\ Len(seats) = 2
  /\ game.current_round >= 3
  /\ Pending # {}

\* C16: a seat's played_card goes from None to a card only by that seat's
\* own successful play, and from a card to None only by a round resolution
\* that clears both seats' slots; with requests serialized at most one seat
\* has a pending played_card between requests, and a pending card stays as
\* it is as long as the opponent does not play.
C16_PlayedCardSlot ==
  /\ [](Cardinality(Pending) <= 1)
  /\ [][\A i \in DOMAIN seats :
          /\ (seats[i].played_card = None /\ seats'[i].played_card # None) =>
               /\ last'.op = "play" /\ last'.body = Waiting
               /\ moves' = Append(moves, [player_id |-> seats[i].player_id,
                                          round_number |-> game.current_round,
                                          card_code |-> seats'[i].played_card])
          /\ (seats[i].played_card # None /\ seats'[i].played_card = None) =>
               /\ last'.op = "play" /\ last'.body = RoundResult
               /\ \A j \in DOMAIN seats' : seats'[j].played_card = None
               /\ Len(moves') = Len(moves) + 1
               /\ moves'[Len(moves')].player_id # seats[i].player_id
          /\ (seats[i].played_card # None /\ seats'[i].played_card # None) =>
               seats'[i].played_card = seats[i].played_card
          /\ (seats[i].played_card # None /\ moves' = moves) =>
               seats'[i] = seats[i]]_vars

\* a round has been resolved and cleared, and a card is pending again
C16_Witness ==
  /\ Len(seats) = 2
  /\ game.current_round >= 2
  /\ seats[2].played_card # None
  /\ seats[1].played_card = None

\* C17: the Move log is append-only and round-consistent: a successful
\* play appends exactly one entry, with the game's current_round before any
\* resolution by that play; a failed play appends nothing; entries are
\* never changed or removed; every round r < current_round has exactly two
\* entries, one per seat, and the entries of current_round are exactly the
\* seats with a pending played_card.
C17_MoveLog ==
  /\ [][/\ moves' = moves \/ (Len(moves') = Len(moves) + 1
                               /\ SubSeq(moves', 1, Len(moves)) = moves)
        /\ (last'.op = "play" /\ last'.body \in {Waiting, RoundResult})
             <=> moves' # moves
        /\ moves' # moves =>
             /\ moves'[Len(moves')].round_number = game.current_round
             /\ \E i \in DOMAIN seats :
                  /\ seats[i].player_id = moves'[Len(moves')].player_id
                  /\ moves'[Len(moves')].card_code \in Range(HandOf(Db, i))
                  /\ moves'[Len(moves')].card_code
                       \notin Range(hand_to_list(seats'[i].hand))]_vars
  /\ [](/\ \A r \in 1..(game.current_round - 1) :
             /\ Cardinality(MovesOfRound(r)) = 2
             /\ {moves[n].player_id : n \in MovesOfRound(r)}
                  = {seats[i].player_id : i \in DOMAIN seats}
        /\ \A n \in DOMAIN moves : moves[n].round_number <= game.current_round
        /\ Cardinality(MovesOfRound(game.current_round)) = Cardinality(Pending)
        /\ {<<moves[n].player_id, moves[n].card_code>> :
              n \in MovesOfRound(game.current_round)}
             = {<<seats[i].player_id, seats[i].played_card>> : i \in Pending})

C17_Witness ==
  /\ game.current_round = 3
  /\ Len(moves) = 5
  /\ Cardinality(Pending) = 1
  /\ last.body = Waiting

\* C19: a hand holds exactly 5 distinct cards right after its join; then it
\* changes only by a successful play of its own seat, which removes
\* exactly the played card; a played card never comes back; the size of
\* the hand is 5 minus the number of successful plays of the seat; joins
\* and plays of the other seat do not change it.
C19_HandsShrink ==
  /\ [](/\ \A i \in DOMAIN seats :
             LET hand_cards == HandOf(Db, i)
                 mine == MovesOfPlayer(seats[i].player_id)
             IN  /\ Len(hand_cards) = HandSize - Cardinality(mine)
                 /\ Cardinality(Range(hand_cards)) = Len(hand_cards)
                 /\ \A n \in mine : moves[n].card_code \notin Range(hand_cards)
                 /\ \A c \in Range(hand_cards) :
                      LET r == play_card(Db, 1, seats[i].player_id, c)
                      IN  r.resp.body \notin Errors =>
                            /\ Range(HandOf(r.db, i)) = Range(hand_cards) \ {c}
                            /\ Len(HandOf(r.db, i)) = Len(hand_cards) - 1
                            /\ \A j \in DOMAIN seats :
                                 j # i => r.db.seats[j].hand = seats[j].hand
        /\ \A player_id \in Players, k \in Shuffles :
             LET r == join_game(Db, 1, player_id, k)
             IN  /\ \A i \in DOMAIN seats : r.db.seats[i].hand = seats[i].hand
                 /\ r.resp.body = Joined =>
                      /\ Len(HandOf(r.db, Len(seats) + 1)) = 5
                      /\ Cardinality(Range(HandOf(r.db, Len(seats) + 1))) = 5)
  /\ [][\A i \in DOMAIN seats :
          \/ seats'[i].hand = seats[i].hand
          \/ /\ last'.op = "play" /\ last'.body \in {Waiting, RoundResult}
             /\ Len(moves') = Len(moves) + 1
             /\ moves'[Len(moves')].player_id = seats[i].player_id
             /\ Range(hand_to_list(seats'[i].hand))
                  = Range(HandOf(Db, i)) \ {moves'[Len(moves')].card_code}
             /\ Len(hand_to_list(seats'[i].hand)) = Len(HandOf(Db, i)) - 1]_vars
  /\ [][Len(seats') > Len(seats) =>
          /\ Len(seats') = Len(seats) + 1
          /\ last'.op = "join" /\ last'.body = Joined
          /\ Cardinality(Range(hand_to_list(seats'[Len(seats')].hand))) = HandSize]_vars

\* two seats with hands of different sizes, both having played
C19_Witness ==
  /\ Len(seats) = 2
  /\ Len(HandOf(Db, 1)) = 2
  /\ Len(HandOf(Db, 2)) = 3
  /\ last.body = Waiting

\* C20: with requests serialized current_round never exceeds 6 and the
\* round wins awarded in the game never exceed 5; once five rounds are
\* resolved both hands are empty, every further play fails with
\* CardNotInHand, and the game stays in_progress at round 6: no request
\* changes it any more.
C20_GameLength ==
  /\ [](/\ game.current_round <= 6
        /\ TotalScore <= 5
        /\ TotalScore <= game.current_round - 1
        /\ game.current_round = 6 =>
             /\ game.status = "in_progress"
             /\ \A i \in DOMAIN seats : seats[i].hand = <<>> /\ seats[i].played_card = None
             /\ \A i \in DOMAIN seats, c \in ReqCards :
                  play_card(Db, 1, seats[i].player_id, c).resp.body = CardNotInHand
             /\ \A game_id \in ReqGames, player_id \in ReqPlayers :
                  /\ \A c \in ReqCards : play_card(Db, game_id, player_id, c).db = Db
                  /\ \A k \in Shuffles : join_game(Db, game_id, player_id, k).db = Db)
  /\ [][game.current_round = 6 =>
          /\ UNCHANGED <<game, seats, score, moves>>
          /\ last'.body \notin {Joined, Waiting, RoundResult}]_vars
  /\ [][/\ game'.current_round \in {game.current_round, game.current_round + 1}
        /\ SumScore(score', NumPlayers) - TotalScore
             \in {0, game'.current_round - game.current_round}]_vars

C20_Witness ==
  /\ game.current_round = 6
  /\ Len(moves) = 10
  /\ last.op = "play" /\ last.body = CardNotInHand
  /\ TotalScore >= 1

\* C13: an emit that raises during a join or a play never keeps the
\* operation from completing its changes: the game is never left with both
\* seats' played_card set and the round unresolved.
C13_PublishFailureHarmless ==
  /\ Cardinality(Pending) <= 1
  /\ 2 * (game.current_round - 1) + Cardinality(Pending) = Len(moves)

\* C18: events are published in a fixed order: a join that seats the
\* player publishes the joined notice, then one snapshot; a play that does
\* not resolve publishes card_played alone, with the round of the play; a
\* play that resolves publishes card_played, round_result with the round
\* already incremented, then one snapshot of the scores and round after
\* the resolution; failed requests and already-joined joins publish
\* nothing.
C18_EventOrder ==
  /\ [](/\ last.body = Joined =>
             /\ Len(pub) = 2
             /\ pub[1] = SystemEvent(1, seats[Len(seats)].player_id)
             /\ <<pub[2]>> = emit_game_state(Db, 1)
        /\ last.body = Waiting =>
             /\ Len(pub) = 1
             /\ pub[1] = CardPlayedEvent(1, moves[Len(moves)].player_id,
                                         moves[Len(moves)].card_code,
                                         game.current_round)
             /\ seats[CHOOSE i \in Pending : TRUE].player_id = pub[1].player_id
        /\ last.body = RoundResult =>
             /\ Len(pub) = 3
             /\ pub[1] = CardPlayedEvent(1, moves[Len(moves)].player_id,
                                         moves[Len(moves)].card_code,
                                         game.current_round - 1)
             /\ pub[2] = RoundResultEvent(1, last.winner, last.values,
                                          game.current_round)
             /\ <<pub[3]>> = emit_game_state(Db, 1)
             /\ pub[3].current_round = game.current_round
             /\ \A i \in DOMAIN seats :
                  pub[3].players[i].score = score[seats[i].player_id]
        /\ last.body \notin {Joined, Waiting, RoundResult} => pub = <<>>
        /\ \A player_id \in ReqPlayers, k \in Shuffles :
             join_game(Db, 1, player_id, k).resp.body = AlreadyJoined
               => join_game_events(Db, 1, player_id, k) = <<>>)
  /\ [][/\ last'.body = Joined =>
             /\ Len(seats') = Len(seats) + 1
             /\ pub' = <<SystemEvent(1, seats'[Len(seats')].player_id)>>
                         \o emit_game_state(DbNext, 1)
        /\ last'.body \in {Waiting, RoundResult} =>
             /\ pub'[1].type = "card_played"
             /\ pub'[1].round = game.current_round
             /\ pub'[1].card_code
                  \in UNION {Range(HandOf(Db, i)) : i \in DOMAIN seats}
        /\ last'.body = Waiting => game'.current_round = pub'[1].round
        /\ last'.body = RoundResult =>
             /\ pub'[2].type = "round_result"
             /\ pub'[2].round = game.current_round + 1
             /\ pub'[3].type = "state"
             /\ pub'[3].current_round = game.current_round + 1
             /\ \A i \in DOMAIN seats :
                  /\ pub'[3].players[i].score >= score[seats[i].player_id]
                  /\ pub'[3].players[i].score > score[seats[i].player_id]
                       <=> pub'[2].winner = seats[i].player_id
        /\ last'.body \notin {Joined, Waiting, RoundResult} =>
             /\ pub' = <<>>
             /\ DbNext = Db]_vars

\* a resolving play with a winner, after the first round
C18_Witness ==
  /\ last.body = RoundResult
  /\ Len(pub) = 3
  /\ pub[2].winner # NoWinner
  /\ pub[1].round >= 2
  /\ pub[2].round = pub[1].round + 1

====
